---- MODULE Spec2Model ----
(***************************************************************************)
(* Model of glpi-notifier-rs: the polling loop (main_loop_with_flags), one *)
(* polling cycle (tick), the GLPI session client (GlpiClient) and the      *)
(* seen-set store (load_state / save_state).                               *)
(*                                                                         *)
(* A ticket is modelled by its identifier: title and requester only feed   *)
(* the text of the toast.  The remote server, the notifier process, the    *)
(* file system and the operator (stop signal, crash, restart) are the      *)
(* environment: their answers are drawn with \E.                           *)
(***************************************************************************)
EXTENDS Integers, Sequences, FiniteSets, TLC

\* ---------------------------------------------------------------- bounds
MaxId == 2          \* ticket identifiers are 1..MaxId
MaxRows == 2        \* rows in one search response
PollSecs == 1       \* POLL_SECONDS of the modelled configuration

Ids == 1..MaxId
Bases == {"cfg", "moved"}     \* base endpoints: the configured one, a redirect target

\* Answers of the server to one HTTP request.
\*   "senderr"  the request could not be sent / no answer (reqwest error)
\*   "ok"       2xx with a well-formed body
\*   "badbody"  2xx whose body does not deserialize
\*   "redirect" 3xx with a usable Location header
\*   "redirnoloc" 3xx without a usable Location header
\*   "fail"     any other status
HttpAnswers == {"senderr", "ok", "badbody", "redirect", "redirnoloc", "fail"}

\* Outcomes of one run of the notifier process: -2 the process could not be
\* launched, -1 it ended without an exit code, otherwise its exit code.
ToastOutcomes == (0 - 2)..6

\* All row lists a search response can carry (identifiers may repeat).
RECURSIVE SeqsUpTo(_)
SeqsUpTo(n) ==
    IF n = 0 THEN {<<>>}
    ELSE LET shorter == SeqsUpTo(n - 1)
         IN shorter \cup {Append(s, i) : s \in {t \in shorter : Len(t) = n - 1}, i \in Ids}
RowLists == SeqsUpTo(MaxRows)

Range(s) == {s[i] : i \in 1..Len(s)}

VARIABLES
    pc,               \* position of the process
    stop,             \* stop_flag()
    exitCause,        \* why main_loop_with_flags returned
    cfgNotify,        \* FIRST_RUN_NOTIFY of the configuration
    dataDir,          \* dirs::data_dir() is Some
    base_url,         \* GlpiClient.base_url
    session_token,    \* GlpiClient.session_token: "none" or "held"
    st,               \* SeenState.seen_ticket_ids (in memory)
    disk,             \* state.json: [kind, ids], ids the array in the file
    first_run,
    first_run_notify,
    tickets,          \* result of search_new_tickets in the current cycle
    fresh,            \* the batch of tick: unseen tickets, newest first
    idx,              \* tickets of fresh already delivered in this cycle
    path,             \* branch the cycle took: "baseline", "firstnotify", "steady"
    tickRes,          \* how the last cycle ended
    count,            \* the count in Ok(count), while tick returns
    sleepLeft,        \* remaining one-second units of the inter-cycle sleep
    \* history
    stStart,          \* st when the current cycle started
    cycDelivered,     \* identifiers delivered in the current cycle, in order
    runSeenStart,     \* every identifier that was in st at the start of a cycle of this run
    runNotified,      \* identifiers delivered in this run
    prevNotified,     \* identifiers delivered in earlier runs of the installation
    cycles,           \* cycles started in this run: "none", "first", "later"
    \* one operation called on its own (specification CallSpec)
    call,             \* the operation called last and what it was given
    ret               \* what that call returned and sent

vars == <<pc, stop, exitCause, cfgNotify, dataDir, base_url, session_token, st, disk,
          first_run, first_run_notify, tickets, fresh, idx, path, tickRes, count,
          sleepLeft, stStart, cycDelivered, runSeenStart, runNotified, prevNotified,
          cycles, call, ret>>

clientVars == <<base_url, session_token>>
seenVars == <<st, disk>>
flagVars == <<first_run, first_run_notify>>
cycleVars == <<tickets, fresh, idx, path, stStart, cycDelivered>>
histVars == <<runSeenStart, runNotified, prevNotified, cycles>>
envVars == <<cfgNotify, dataDir>>
callVars == <<call, ret>>

\* ------------------------------------------------------------ GlpiClient

\* A request as it leaves the client: its endpoint, the base it is sent to
\* and the Session-Token header it carries ("none" when it carries none).
Req(name, base, sess) == [req |-> name, base |-> base, sess |-> sess]

\* init_session: r1 answers the first initSession request, loc is the
\* Location of a redirect, r2 answers the retry.  Returns the result, the
\* fields of the client after the call and the requests sent.
init_session_FollowsSecondRedirect(base, tok, r1, loc, r2) ==
    LET first == Req("initSession", base, "none")
        retry == Req("initSession", loc, "none")
    IN IF r1 = "redirect" THEN
           IF r2 \in {"ok", "redirect"}
           THEN [ok |-> TRUE, base |-> loc, tok |-> "held",
                 reqs |-> IF r2 = "ok" THEN <<first, retry>> ELSE <<first, retry, retry>>]
           ELSE [ok |-> FALSE, base |-> loc, tok |-> tok, reqs |-> <<first, retry>>]
       ELSE [ok |-> r1 = "ok", base |-> base, tok |-> IF r1 = "ok" THEN "held" ELSE tok,
             reqs |-> <<first>>]

init_session(base, tok, r1, loc, r2) ==
    LET first == Req("initSession", base, "none")
        retry == Req("initSession", loc, "none")
    IN IF r1 = "senderr"
       THEN [ok |-> FALSE, base |-> base, tok |-> tok, reqs |-> <<first>>]
       ELSE IF r1 = "redirect" THEN
           IF r2 = "ok"
           THEN [ok |-> TRUE, base |-> loc, tok |-> "held", reqs |-> <<first, retry>>]
           ELSE [ok |-> FALSE, base |-> loc, tok |-> tok, reqs |-> <<first, retry>>]
       ELSE IF r1 = "ok"
       THEN [ok |-> TRUE, base |-> base, tok |-> "held", reqs |-> <<first>>]
       ELSE [ok |-> FALSE, base |-> base, tok |-> tok, reqs |-> <<first>>]

\* kill_session: r answers the killSession request.
kill_session(base, tok, r) ==
    IF tok = "none" THEN [ok |-> TRUE, tok |-> "none", reqs |-> <<>>]
    ELSE IF r = "senderr"
         THEN [ok |-> FALSE, tok |-> tok, reqs |-> <<Req("killSession", base, tok)>>]
    ELSE [ok |-> TRUE, tok |-> "none", reqs |-> <<Req("killSession", base, tok)>>]

\* ensure_session: authenticate only when no session is held.
ensure_session_NeverAuthenticates(base, tok, r1, loc, r2) ==
    [ok |-> TRUE, base |-> base, tok |-> tok, reqs |-> <<>>]

ensure_session(base, tok, r1, loc, r2) ==
    IF tok = "none" THEN init_session(base, tok, r1, loc, r2)
    ELSE [ok |-> TRUE, base |-> base, tok |-> tok, reqs |-> <<>>]

\* The three query operations: ensure_session first, then one request that
\* carries the session; q answers that request.  Only a 2xx answer with a
\* well-formed body makes the call succeed.
list_search_options(base, tok, r1, loc, r2, q) ==
    LET e == ensure_session(base, tok, r1, loc, r2)
    IN IF ~e.ok THEN e
       ELSE [ok |-> q = "ok", base |-> e.base, tok |-> e.tok,
             reqs |-> Append(e.reqs, Req("listSearchOptions", e.base, e.tok))]

search_new_tickets(base, tok, r1, loc, r2, q) ==
    LET e == ensure_session(base, tok, r1, loc, r2)
    IN IF ~e.ok THEN e
       ELSE [ok |-> q = "ok", base |-> e.base, tok |-> e.tok,
             reqs |-> Append(e.reqs, Req("search/Ticket", e.base, e.tok))]

search_recent_tickets(base, tok, r1, loc, r2, q) ==
    LET e == ensure_session(base, tok, r1, loc, r2)
    IN IF ~e.ok THEN e
       ELSE [ok |-> q = "ok", base |-> e.base, tok |-> e.tok,
             reqs |-> Append(e.reqs, Req("search/Ticket", e.base, e.tok))]

\* ---- the rows of a search response
\* A JSON value found under the id key of a row: a number that is an i64
\* (t = "num"), a string given by its characters (t = "str"), or a value
\* that carries no integer: a float, an unsigned number above i64::MAX, null,
\* a boolean, an array.
JNum(n) == [t |-> "num", n |-> n, s |-> <<>>]
JStr(s) == [t |-> "str", n |-> 0, s |-> s]
JOther(t) == [t |-> t, n |-> 0, s |-> <<>>]
Some(n) == [some |-> TRUE, v |-> n]
None == [some |-> FALSE, v |-> 0]

Digits == {"0", "1", "2", "3", "4", "5", "6", "7", "8", "9"}
Whitespace == {" ", "\t"}
DigitValue(c) ==
    CASE c = "0" -> 0 [] c = "1" -> 1 [] c = "2" -> 2 [] c = "3" -> 3 [] c = "4" -> 4
      [] c = "5" -> 5 [] c = "6" -> 6 [] c = "7" -> 7 [] c = "8" -> 8 [] c = "9" -> 9

\* str::trim: leading and trailing whitespace removed.
RECURSIVE TrimStart(_)
TrimStart(s) ==
    IF s # <<>> /\ Head(s) \in Whitespace THEN TrimStart(Tail(s)) ELSE s
RECURSIVE TrimEnd(_)
TrimEnd(s) ==
    IF s # <<>> /\ s[Len(s)] \in Whitespace THEN TrimEnd(SubSeq(s, 1, Len(s) - 1)) ELSE s
Trim(s) == TrimEnd(TrimStart(s))

\* str::parse::<i64>: an optional sign, then one or more decimal digits and
\* nothing else.  (The strings of the model stay far below the width of i64.)
RECURSIVE DecimalValue(_)
DecimalValue(ds) ==
    IF ds = <<>> THEN 0
    ELSE 10 * DecimalValue(SubSeq(ds, 1, Len(ds) - 1)) + DigitValue(ds[Len(ds)])
ParseI64(s) ==
    IF s = <<>> THEN None
    ELSE LET signed == s[1] \in {"+", "-"}
             ds == IF signed THEN Tail(s) ELSE s
         IN IF ds = <<>> \/ \E i \in 1..Len(ds) : ds[i] \notin Digits
            THEN None
            ELSE Some(IF s[1] = "-" THEN 0 - DecimalValue(ds) ELSE DecimalValue(ds))

extract_i64(v) ==
    CASE v.t = "str" -> ParseI64(Trim(v.s))
      [] v.t = "num" -> Some(v.n)
      [] OTHER -> None

\* A row: a JSON object with or without the id key, or a value that is no
\* object.  row_to_ticket gives the ticket (its identifier) or nothing.
ObjectRow(v) == [kind |-> "object", hasId |-> TRUE, id |-> v]
ObjectRowWithoutId == [kind |-> "object", hasId |-> FALSE, id |-> JOther("null")]
NonObjectRow == [kind |-> "other", hasId |-> FALSE, id |-> JOther("null")]

row_to_ticket(row) ==
    IF row.kind = "object" /\ row.hasId THEN extract_i64(row.id) ELSE None

\* parse_ticket_rows: data is the "data" member of the payload: an array of
\* rows, an object whose members (rows, here in the order the map yields
\* them, under whatever keys) are rows, or anything else.
RECURSIVE CollectTickets(_)
CollectTickets(rows) ==
    IF rows = <<>> THEN <<>>
    ELSE LET t == row_to_ticket(Head(rows))
         IN (IF t.some THEN <<t.v>> ELSE <<>>) \o CollectTickets(Tail(rows))

RECURSIVE CollectUntilMalformed(_)
CollectUntilMalformed(rows) ==
    IF rows = <<>> THEN <<>>
    ELSE LET t == row_to_ticket(Head(rows))
         IN IF t.some THEN <<t.v>> \o CollectUntilMalformed(Tail(rows)) ELSE <<>>

parse_ticket_rows_StopsAtMalformedRow(data) ==
    [ok |-> TRUE,
     tickets |-> IF data.kind \in {"object", "array"}
                 THEN CollectUntilMalformed(data.rows) ELSE <<>>]

parse_ticket_rows(data) ==
    [ok |-> TRUE,
     tickets |-> IF data.kind \in {"object", "array"}
                 THEN CollectTickets(data.rows) ELSE <<>>]

\* What a call can return, over every answer of the server.
InitResults(base, tok) ==
    {init_session(base, tok, r1, loc, r2) :
        r1 \in HttpAnswers, loc \in Bases, r2 \in HttpAnswers}
EnsureResults(base, tok) ==
    {ensure_session(base, tok, r1, loc, r2) :
        r1 \in HttpAnswers, loc \in Bases, r2 \in HttpAnswers}
KillResults(base, tok) == {kill_session(base, tok, r) : r \in HttpAnswers}

\* ------------------------------------------------------------ seen store

\* serde_json::to_vec_pretty of SeenState: the BTreeSet is written as a JSON
\* array, smallest identifier first.
\* The set a sequence of BTreeSet::insert calls builds.
RECURSIVE InsertAll(_)
InsertAll(ins) ==
    IF ins = <<>> THEN {}
    ELSE InsertAll(SubSeq(ins, 1, Len(ins) - 1)) \cup {ins[Len(ins)]}

SerializeDropsGreatest(seen) ==
    IF seen = {} THEN <<>>
    ELSE LET least == CHOOSE x \in seen : \A y \in seen : x <= y
         IN <<least>>

RECURSIVE Serialize(_)
Serialize(seen) ==
    IF seen = {} THEN <<>>
    ELSE LET least == CHOOSE x \in seen : \A y \in seen : x <= y
         IN <<least>> \o Serialize(seen \ {least})

\* serde_json::from_slice into SeenState: the elements of the array are
\* inserted into a BTreeSet one by one.
RECURSIVE Deserialize(_)
Deserialize(data) ==
    IF data = <<>> THEN {}
    ELSE Deserialize(Tail(data)) \cup {Head(data)}

\* load_state: readable says whether fs::read succeeded.
load_state_IgnoresReadError(d, hasDir, readable) ==
    [ok |-> TRUE, ids |-> IF hasDir THEN Deserialize(d.ids) ELSE {}]

load_state(d, hasDir, readable) ==
    IF hasDir /\ d.kind # "absent"
    THEN IF readable /\ d.kind = "ok" THEN [ok |-> TRUE, ids |-> Deserialize(d.ids)]
         ELSE [ok |-> FALSE, ids |-> {}]
    ELSE [ok |-> TRUE, ids |-> {}]

\* save_state: w is what fs::write did: "ok", "failed" (file untouched) or
\* "torn" (it failed after truncating or partly writing the file).
save_state(d, seen, hasDir, w) ==
    IF hasDir
    THEN IF w = "ok" THEN [ok |-> TRUE, disk |-> [kind |-> "ok", ids |-> Serialize(seen)]]
         ELSE IF w = "torn" THEN [ok |-> FALSE, disk |-> [kind |-> "corrupt", ids |-> <<>>]]
         ELSE [ok |-> FALSE, disk |-> d]
    ELSE [ok |-> TRUE, disk |-> d]

\* ------------------------------------------------------------------ tick

\* Unseen without the membership test: every fetched ticket is in the batch.
UnseenNoFilter(ts, seen) == ts

\* tickets.iter().filter(|t| !st.seen_ticket_ids.contains(&t.id))
Unseen(ts, seen) == SelectSeq(ts, LAMBDA id : id \notin seen)

\* fresh.sort_by_key(|t| -t.id): a stable sort, ascending in the key -id.
\* Identifiers are ticket numbers in 1..MaxId, far from the i64 limits, so the
\* negation is exact.
SortKey(id) == 0 - id

RECURSIVE InsertByKey(_, _)
InsertByKey(s, x) ==
    IF s = <<>> THEN <<x>>
    ELSE IF SortKey(x) < SortKey(Head(s)) THEN <<x>> \o s
    ELSE <<Head(s)>> \o InsertByKey(Tail(s), x)

RECURSIVE SortNewestFirst(_)
SortNewestFirst(s) ==
    IF s = <<>> THEN <<>>
    ELSE InsertByKey(SortNewestFirst(SubSeq(s, 1, Len(s) - 1)), s[Len(s)])

\* The branch of tick taken for the flags of the cycle.
TickPathBaselineWithoutFirstRun(fr, frn) ==
    IF ~frn THEN "baseline"
    ELSE IF fr THEN "firstnotify"
    ELSE "steady"

TickPath(fr, frn) ==
    IF fr /\ ~frn THEN "baseline"
    ELSE IF fr /\ frn THEN "firstnotify"
    ELSE "steady"

\* FlagsAfterBranch clearing only first_run_notify on the first notifying cycle.
FlagsAfterBranchKeepFirstRun(p, fr, frn) ==
    IF p = "firstnotify" THEN [first_run |-> fr, first_run_notify |-> FALSE]
    ELSE [first_run |-> fr, first_run_notify |-> frn]

\* The flags after the first-run branches of a cycle that goes on to filter.
FlagsAfterBranch(p, fr, frn) ==
    IF p = "firstnotify" THEN [first_run |-> FALSE, first_run_notify |-> FALSE]
    ELSE [first_run |-> fr, first_run_notify |-> frn]

\* BaselineSeen that records only the newest fetched identifier.
BaselineSeenNewestOnly(seen, ts) ==
    IF ts = <<>> THEN seen ELSE seen \cup {SortNewestFirst(ts)[1]}

\* st.seen_ticket_ids.extend(current_ids)
BaselineSeen(seen, ts) == seen \cup Range(ts)

\* show_toast: Ok exactly for the documented exit codes.
\* The URL template of the configuration (GLPI_TICKET_URL_TEMPLATE), as the
\* pieces of its text: "{id}" is the placeholder, every other piece is
\* literal text.  some = FALSE when no template is configured.
Templates == {<<"https://glpi/front/ticket.form.php?id=", "{id}">>,
              <<"https://glpi/", "{id}", "/copy/", "{id}">>,
              <<"https://glpi/tickets">>}
UrlTemplates ==
    {[some |-> FALSE, text |-> <<>>]} \cup {[some |-> TRUE, text |-> t] : t \in Templates}

\* tpl.replace("{id}", &t.id.to_string()): every occurrence is replaced.
ReplaceKeepsPlaceholder(text, id) == text

Replace(text, id) ==
    [i \in 1..Len(text) |-> IF text[i] = "{id}" THEN ToString(id) ELSE text[i]]

\* show_toast_snoretoast: outcome is what running the notifier gave, open_url
\* the URL of the button (some = FALSE without one), openOk whether
\* open_url_windows succeeds.  Returns the result, the URLs it tried to open
\* and whether it logged a failed open.
show_toast_snoretoast_AcceptsEveryExit(outcome, open_url, openOk) ==
    [ok |-> outcome >= 0,
     opens |-> IF outcome = 4 /\ open_url.some THEN <<open_url.text>> ELSE <<>>,
     warned |-> outcome = 4 /\ open_url.some /\ ~openOk]

show_toast_snoretoast(outcome, open_url, openOk) ==
    IF outcome = 0 - 2
    THEN [ok |-> FALSE, opens |-> <<>>, warned |-> FALSE]
    ELSE IF outcome \in 0..5
    THEN IF outcome = 4 /\ open_url.some
         THEN [ok |-> TRUE, opens |-> <<open_url.text>>, warned |-> ~openOk]
         ELSE [ok |-> TRUE, opens |-> <<>>, warned |-> FALSE]
    ELSE [ok |-> FALSE, opens |-> <<>>, warned |-> FALSE]

show_toast(id, tpl, outcome, openOk) ==
    show_toast_snoretoast(outcome,
                          [some |-> tpl.some, text |-> Replace(tpl.text, id)],
                          openOk)

\* What show_toast can return for a ticket, over every outcome of the
\* notifier, every configuration of the template and every outcome of the
\* attempt to open the URL.
ToastResults(id) ==
    {show_toast(id, tpl, o, openOk) :
        o \in ToastOutcomes, tpl \in UrlTemplates, openOk \in BOOLEAN}

\* ------------------------------------------------------------- the run

\* The uids main_loop_with_flags asks for; the first three must resolve.
FieldNames ==
    {"Ticket.id", "Ticket.name", "Ticket.status", "Ticket._users_id_recipient"}
MandatoryFieldsAll == FieldNames

MandatoryFields == {"Ticket.id", "Ticket.name", "Ticket.status"}

\* Members of a listSearchOptions answer: numeric says whether the key of
\* the member parses as an i64, uid is the "uid" string of its value.
OptEntries ==
    {[numeric |-> TRUE, uid |-> u] : u \in FieldNames}
        \cup {[numeric |-> FALSE, uid |-> "Ticket.id"],
              [numeric |-> TRUE, uid |-> "Ticket.content"]}

\* resolve_field_ids: the requested uids found under a numeric key.
resolve_field_ids(opts, uids) == {e.uid : e \in {o \in opts : o.numeric /\ o.uid \in uids}}

\* What resolve_field_ids can return for the uids of the run.
ResolveResults == {resolve_field_ids(opts, FieldNames) : opts \in SUBSET OptEntries}

NoDisk == [kind |-> "absent", ids |-> <<>>]

NoCall == [op |-> "none"]
NoRet == [ok |-> TRUE]

\* The locals of tick and the history of the cycle, outside a cycle.
NoCycle ==
    /\ tickets' = <<>>
    /\ fresh' = <<>>
    /\ idx' = 0
    /\ path' = "none"
    /\ count' = 0
    /\ stStart' = {}
    /\ cycDelivered' = <<>>

\* The memory of a process that has ended.
NoProcess ==
    /\ stop' = FALSE
    /\ base_url' = "cfg"
    /\ session_token' = "none"
    /\ st' = {}
    /\ first_run' = FALSE
    /\ first_run_notify' = cfgNotify
    /\ tickRes' = "none"
    /\ sleepLeft' = 0
    /\ runSeenStart' = {}
    /\ prevNotified' = prevNotified \cup runNotified
    /\ runNotified' = {}
    /\ cycles' = "none"
    /\ NoCycle

Init ==
    /\ pc = "boot"
    /\ stop = FALSE
    /\ exitCause = "none"
    /\ cfgNotify \in BOOLEAN
    /\ dataDir \in BOOLEAN
    /\ base_url = "cfg"
    /\ session_token = "none"
    /\ st = {}
    /\ disk = NoDisk
    /\ first_run = FALSE
    /\ first_run_notify = cfgNotify
    /\ tickets = <<>>
    /\ fresh = <<>>
    /\ idx = 0
    /\ path = "none"
    /\ tickRes = "none"
    /\ count = 0
    /\ sleepLeft = 0
    /\ stStart = {}
    /\ cycDelivered = <<>>
    /\ runSeenStart = {}
    /\ runNotified = {}
    /\ prevNotified = {}
    /\ cycles = "none"
    /\ call = NoCall
    /\ ret = NoRet

\* main_loop_with_flags up to the first init_session: build the client, then
\* authenticate.  Either failure returns from the function.
Start ==
    /\ UNCHANGED callVars
    /\ pc = "boot"
    /\ \/ /\ pc' = "exited"
          /\ exitCause' = "client"
          /\ UNCHANGED clientVars
       \/ \E a \in InitResults(base_url, session_token) :
            /\ base_url' = a.base
            /\ session_token' = a.tok
            /\ pc' = IF a.ok THEN "resolve" ELSE "exited"
            /\ exitCause' = IF a.ok THEN exitCause ELSE "auth"
    /\ UNCHANGED <<stop, seenVars, flagVars, cycleVars, histVars, envVars,
                   tickRes, count, sleepLeft>>

\* resolve_field_ids and the three mandatory lookups: found is the set of
\* requested uids present in the listSearchOptions answer.
ResolveStep(e, q, found) ==
    /\ pc = "resolve"
    /\ base_url' = e.base
    /\ session_token' = e.tok
    /\ IF ~e.ok
       THEN /\ pc' = "exited"
            /\ exitCause' = "auth"
       ELSE IF q # "ok" THEN /\ pc' = "exited"
                             /\ exitCause' = "introspect"
       ELSE IF ~(MandatoryFields \subseteq found)
            THEN /\ pc' = "exited"
                 /\ exitCause' = "schema"
       ELSE /\ pc' = "load"
            /\ UNCHANGED exitCause
    /\ UNCHANGED <<stop, seenVars, flagVars, cycleVars, histVars, envVars,
                   tickRes, count, sleepLeft>>

Resolve ==
    /\ UNCHANGED callVars
    /\ \E e \in EnsureResults(base_url, session_token) :
         IF ~e.ok THEN ResolveStep(e, "fail", {})
         ELSE \E q \in {"ok", "fail"} :
                IF q # "ok" THEN ResolveStep(e, q, {})
                ELSE \E found \in ResolveResults : ResolveStep(e, q, found)

\* load_state with the fallback to the default state, then first_run.
LoadStep(readable) ==
    /\ pc = "load"
    /\ LET l == load_state(disk, dataDir, readable)
       IN /\ st' = l.ids
          /\ first_run' = (l.ids = {})
    /\ pc' = "loop"
    /\ UNCHANGED <<stop, exitCause, clientVars, disk, first_run_notify, cycleVars,
                   histVars, envVars, tickRes, count, sleepLeft>>

Load ==
    /\ UNCHANGED callVars
    /\ \E readable \in BOOLEAN : LoadStep(readable)

\* stop_flag(): the stop signal as the loop reads it.
StopRequestedNever == FALSE

StopRequested == stop

\* Top of the loop with the stop signal set: end the session and leave.
LoopStop ==
    /\ UNCHANGED callVars
    /\ pc = "loop"
    /\ StopRequested
    /\ \E k \in KillResults(base_url, session_token) :
         session_token' = k.tok
    /\ pc' = "exited"
    /\ exitCause' = "stop"
    /\ UNCHANGED <<stop, base_url, seenVars, flagVars, cycleVars, histVars, envVars,
                   tickRes, count, sleepLeft>>

\* tick, from its call to the point where it first waits on the notifier or
\* the state file: search_new_tickets (with ensure_session), the first-run
\* branches, the filter and the sort.
TickFailedClearsFlags(cause) ==
    /\ tickRes' = cause
    /\ pc' = "tickErr"
    /\ tickets' = <<>>
    /\ fresh' = <<>>
    /\ path' = "none"
    /\ first_run' = FALSE
    /\ UNCHANGED <<st, first_run_notify, count>>

TickFailed(cause) ==
    /\ tickRes' = cause
    /\ pc' = "tickErr"
    /\ tickets' = <<>>
    /\ fresh' = <<>>
    /\ path' = "none"
    /\ UNCHANGED <<st, flagVars, count>>

TickFetched(rows) ==
    LET p == TickPath(first_run, first_run_notify)
        batch == SortNewestFirst(Unseen(rows, st))
    IN /\ tickets' = rows
       /\ path' = p
       /\ IF p = "baseline"
          THEN /\ st' = BaselineSeen(st, rows)
               /\ fresh' = <<>>
               /\ tickRes' = "running"
               /\ pc' = "save"
               /\ UNCHANGED <<flagVars, count>>
          ELSE /\ first_run' = FlagsAfterBranch(p, first_run, first_run_notify).first_run
               /\ first_run_notify' =
                      FlagsAfterBranch(p, first_run, first_run_notify).first_run_notify
               /\ fresh' = batch
               /\ UNCHANGED st
               /\ IF batch = <<>>
                  THEN /\ tickRes' = "ok"
                       /\ count' = 0
                       /\ pc' = "tickOk"
                  ELSE /\ tickRes' = "running"
                       /\ pc' = "deliver"
                       /\ UNCHANGED count

TickQuery ==
    /\ UNCHANGED callVars
    /\ pc = "loop"
    /\ ~StopRequested
    /\ stStart' = st
    /\ cycDelivered' = <<>>
    /\ runSeenStart' = runSeenStart \cup st
    /\ cycles' = IF cycles = "none" THEN "first" ELSE "later"
    /\ idx' = 0
    /\ \E e \in EnsureResults(base_url, session_token) :
         /\ base_url' = e.base
         /\ session_token' = e.tok
         /\ IF ~e.ok
            THEN TickFailed("auth")
            ELSE \/ TickFailed("query")
                 \/ \E rows \in RowLists : TickFetched(rows)
    /\ UNCHANGED <<stop, exitCause, disk, runNotified, prevNotified, envVars, sleepLeft>>

\* One iteration of the delivery loop of tick: show_toast, then the insert.
DeliverStep(shown) ==
    /\ pc = "deliver"
    /\ idx < Len(fresh)
    /\   IF shown.ok
         THEN /\ st' = st \cup {fresh[idx + 1]}
              /\ idx' = idx + 1
              /\ cycDelivered' = Append(cycDelivered, fresh[idx + 1])
              /\ runNotified' = runNotified \cup {fresh[idx + 1]}
              /\ pc' = IF idx + 1 = Len(fresh) THEN "save" ELSE "deliver"
              /\ UNCHANGED tickRes
         ELSE /\ tickRes' = "delivery"
              /\ pc' = "tickErr"
              /\ UNCHANGED <<st, idx, cycDelivered, runNotified>>
    /\ UNCHANGED <<stop, exitCause, clientVars, disk, flagVars, tickets, fresh, path,
                   stStart, runSeenStart, prevNotified, cycles, envVars, count,
                   sleepLeft>>

Deliver ==
    /\ UNCHANGED callVars
    /\ pc = "deliver"
    /\ idx < Len(fresh)
    /\ \E shown \in ToastResults(fresh[idx + 1]) : DeliverStep(shown)

\* save_state at the end of tick (baseline branch, or after a non-empty
\* batch) and the return of tick.
Save ==
    /\ UNCHANGED callVars
    /\ pc = "save"
    /\ \E w \in {"ok", "failed", "torn"} :
         LET r == save_state(disk, st, dataDir, w)
         IN /\ disk' = r.disk
            /\ IF r.ok
               THEN /\ tickRes' = "ok"
                    /\ count' = IF path = "baseline" THEN 0 ELSE Len(fresh)
                    /\ first_run' = IF path = "baseline" THEN FALSE ELSE first_run
                    /\ pc' = "tickOk"
               ELSE /\ tickRes' = "persist"
                    /\ pc' = "tickErr"
                    /\ UNCHANGED <<count, first_run>>
    /\ UNCHANGED <<stop, exitCause, clientVars, st, first_run_notify, tickets, fresh,
                   idx, path, stStart, cycDelivered, histVars, envVars, sleepLeft>>

\* The Ok arm of the caller: the heartbeat, then the sleep begins.
HandleOk ==
    /\ UNCHANGED callVars
    /\ pc = "tickOk"
    /\ pc' = "sleep"
    /\ sleepLeft' = PollSecs
    /\ NoCycle
    /\ UNCHANGED <<stop, exitCause, clientVars, seenVars, flagVars, histVars, envVars,
                   tickRes>>

\* The Err arm of the caller: kill_session, its result ignored; then the
\* sleep begins.
HandleErr ==
    /\ UNCHANGED callVars
    /\ pc = "tickErr"
    /\ \E k \in KillResults(base_url, session_token) :
         session_token' = k.tok
    /\ pc' = "sleep"
    /\ sleepLeft' = PollSecs
    /\ NoCycle
    /\ UNCHANGED <<stop, exitCause, base_url, seenVars, flagVars, histVars, envVars,
                   tickRes>>

\* The stop signal is not set at the head of a sleep unit: the one-second
\* sleep begins.
SleepTick ==
    /\ UNCHANGED callVars
    /\ pc = "sleep"
    /\ sleepLeft > 0
    /\ ~StopRequested
    /\ pc' = "sleeping"
    /\ UNCHANGED <<stop, exitCause, clientVars, seenVars, flagVars, cycleVars,
                   histVars, envVars, tickRes, count, sleepLeft>>

\* thread::sleep(1 s) returns: one unit of the sleep has elapsed.
SleepUnit ==
    /\ UNCHANGED callVars
    /\ pc = "sleeping"
    /\ pc' = "sleep"
    /\ sleepLeft' = sleepLeft - 1
    /\ UNCHANGED <<stop, exitCause, clientVars, seenVars, flagVars, cycleVars,
                   histVars, envVars, tickRes, count>>

\* The stop signal seen inside the sleep: end the session, leave the sleep.
SleepStop ==
    /\ UNCHANGED callVars
    /\ pc = "sleep"
    /\ sleepLeft > 0
    /\ StopRequested
    /\ \E k \in KillResults(base_url, session_token) :
         session_token' = k.tok
    /\ pc' = "loop"
    /\ UNCHANGED <<stop, exitCause, base_url, seenVars, flagVars, cycleVars, histVars,
                   envVars, tickRes, count, sleepLeft>>

\* The sleep ran to its end.
SleepDone ==
    /\ UNCHANGED callVars
    /\ pc = "sleep"
    /\ sleepLeft = 0
    /\ pc' = "loop"
    /\ UNCHANGED <<stop, exitCause, clientVars, seenVars, flagVars, cycleVars, histVars,
                   envVars, tickRes, count, sleepLeft>>

\* -------------------------------------------------------- the environment

\* The operator sets the stop signal.
SetStop ==
    /\ UNCHANGED callVars
    /\ pc # "exited"
    /\ ~stop
    /\ stop' = TRUE
    /\ UNCHANGED <<pc, exitCause, clientVars, seenVars, flagVars, cycleVars, histVars,
                   envVars, tickRes, count, sleepLeft>>

\* The process is killed or the machine goes down: its memory is lost.
Crash ==
    /\ UNCHANGED callVars
    /\ pc # "exited"
    /\ pc' = "exited"
    /\ exitCause' = "crash"
    /\ NoProcess
    /\ UNCHANGED <<disk, envVars>>

\* The process is started again: only state.json and the configuration survive.
Restart ==
    /\ UNCHANGED callVars
    /\ pc = "exited"
    /\ pc' = "boot"
    /\ exitCause' = "none"
    /\ NoProcess
    /\ UNCHANGED <<disk, envVars>>

Next ==
    \/ Start
    \/ Resolve
    \/ Load
    \/ LoopStop
    \/ TickQuery
    \/ Deliver
    \/ Save
    \/ HandleOk
    \/ HandleErr
    \/ SleepTick
    \/ SleepUnit
    \/ SleepStop
    \/ SleepDone
    \/ SetStop
    \/ Crash
    \/ Restart

Spec == Init /\ [][Next]_vars

\* The steps of the process itself, which the runtime keeps taking: every
\* action but those of the operator and of the machine.
ProcessStep ==
    \/ Start
    \/ Resolve
    \/ Load
    \/ LoopStop
    \/ TickQuery
    \/ Deliver
    \/ Save
    \/ HandleOk
    \/ HandleErr
    \/ SleepTick
    \/ SleepUnit
    \/ SleepStop
    \/ SleepDone

\* One run of the process from its start to its exit, under an operator
\* who may set the stop signal at any moment; the runtime keeps the process
\* going, so a step of the process that stays possible is eventually taken.
RunNext ==
    \/ ProcessStep
    \/ SetStop

FairSpec == Init /\ [][RunNext]_vars /\ WF_vars(ProcessStep)

TypeOK ==
    /\ pc \in {"boot", "resolve", "load", "loop", "deliver", "save", "tickOk",
               "tickErr", "sleep", "sleeping", "exited"}
    /\ session_token \in {"none", "held"}
    /\ base_url \in Bases
    /\ st \subseteq Ids
    /\ idx \in 0..Len(fresh)

\* ------------------------------------------- one operation on its own
\* A second specification: one operation of the program is called once from
\* a state the program can be in; call records what went in (the state
\* before and the answers of the environment), ret what came out.
QueryOps == {"list_search_options", "search_new_tickets", "search_recent_tickets"}
QueryReqs == {"listSearchOptions", "search/Ticket"}

\* The client between two operations: any base it can point to, with or
\* without a session.
CallInitClient ==
    /\ pc = "call"
    /\ base_url \in Bases
    /\ session_token \in {"none", "held"}
    /\ dataDir = TRUE
    /\ st = {}
    /\ disk = NoDisk
    /\ first_run = FALSE
    /\ tickets = <<>> /\ fresh = <<>> /\ idx = 0
    /\ path = "none" /\ stStart = {} /\ cycDelivered = <<>>

\* A cycle that has fetched its tickets and is about to deliver the first
\* ticket of a non-empty batch.
CallInitCycle ==
    /\ pc = "deliver"
    /\ base_url \in Bases
    /\ session_token = "held"
    /\ dataDir \in BOOLEAN
    /\ st \in SUBSET Ids
    /\ disk \in {NoDisk, [kind |-> "ok", ids |-> Serialize(st)]}
    /\ first_run = FALSE
    /\ first_run_notify = FALSE
    /\ tickets \in RowLists
    /\ fresh = SortNewestFirst(Unseen(tickets, st))
    /\ fresh # <<>>
    /\ idx = 0
    /\ path \in {"firstnotify", "steady"}
    /\ path = "firstnotify" => st = {}
    /\ tickRes = "running"
    /\ stStart = st /\ runSeenStart = st
    /\ cycDelivered = <<>>
    /\ cycles = "first"

\* What state.json can be when a run starts: never written, written by
\* save_state, or damaged.
DiskStates ==
    {NoDisk, [kind |-> "corrupt", ids |-> <<>>]}
        \cup {[kind |-> "ok", ids |-> Serialize(s)] : s \in SUBSET Ids}

\* A run that has authenticated and resolved the fields and is about to
\* load the seen set.
CallInitLoad ==
    /\ pc = "load"
    /\ base_url \in Bases
    /\ session_token = "held"
    /\ dataDir \in BOOLEAN
    /\ disk \in DiskStates
    /\ ~dataDir => disk = NoDisk
    /\ st = {}
    /\ first_run = FALSE
    /\ first_run_notify = cfgNotify
    /\ tickets = <<>> /\ fresh = <<>> /\ idx = 0
    /\ path = "none" /\ stStart = {} /\ cycDelivered = <<>>
    /\ tickRes = "none"
    /\ runSeenStart = {}
    /\ cycles = "none"

\* The values a server can put under the id key, the rows and the "data"
\* members of the responses that are parsed.
IdStrings ==
    {<<"1">>, <<"2">>, <<"1", "2">>, <<"0", "1">>, <<" ", "1">>, <<"2", "\t">>,
     <<" ", "1", "2", " ">>, <<"-", "1">>, <<"+", "2">>, <<>>, <<" ">>, <<"-">>,
     <<"x">>, <<"1", "x">>, <<"1", " ", "2">>, <<"1", ".", "0">>, <<"-", " ", "1">>}
IdValues ==
    {JNum(n) : n \in (0 - 1)..MaxId} \cup {JStr(s) : s \in IdStrings}
        \cup {JOther(t) : t \in {"float", "u64big", "null", "bool", "array"}}
Rows == {ObjectRow(v) : v \in IdValues} \cup {ObjectRowWithoutId, NonObjectRow}
RECURSIVE RowSeqsUpTo(_)
RowSeqsUpTo(n) ==
    IF n = 0 THEN {<<>>}
    ELSE LET shorter == RowSeqsUpTo(n - 1)
         IN shorter \cup {Append(s, r) : s \in {t \in shorter : Len(t) = n - 1}, r \in Rows}
JsonData ==
    {[kind |-> k, rows |-> rs] : k \in {"object", "array"}, rs \in RowSeqsUpTo(MaxRows)}
        \cup {[kind |-> "other", rows |-> <<>>]}

\* A run that has authenticated and is about to resolve the field ids.
CallInitResolve ==
    /\ pc = "resolve"
    /\ base_url \in Bases
    /\ session_token = "held"
    /\ dataDir \in BOOLEAN
    /\ disk \in DiskStates
    /\ ~dataDir => disk = NoDisk
    /\ st = {}
    /\ first_run = FALSE
    /\ first_run_notify = cfgNotify
    /\ tickets = <<>> /\ fresh = <<>> /\ idx = 0
    /\ path = "none" /\ stStart = {} /\ cycDelivered = <<>>
    /\ tickRes = "none"
    /\ runSeenStart = {}
    /\ cycles = "none"

CallInit ==
    /\ stop = FALSE
    /\ exitCause = "none"
    /\ cfgNotify \in BOOLEAN
    /\ count = 0 /\ sleepLeft = 0
    /\ runNotified = {} /\ prevNotified = {}
    /\ call = NoCall /\ ret = NoRet
    /\ \/ /\ CallInitClient
          /\ first_run_notify = cfgNotify
          /\ tickRes = "none"
          /\ runSeenStart = {}
          /\ cycles = "none"
       \/ CallInitCycle
       \/ CallInitLoad
       \/ CallInitResolve

CallerVars == <<pc, stop, exitCause, cfgNotify, dataDir, st, disk, first_run,
                first_run_notify, tickets, fresh, idx, path, tickRes, count,
                sleepLeft, stStart, cycDelivered, runSeenStart, runNotified,
                prevNotified, cycles>>

CallInitSession ==
    /\ pc = "call" /\ call = NoCall
    /\ session_token = "none"
    /\ \E r1 \in HttpAnswers, loc \in Bases, r2 \in HttpAnswers :
        LET r == init_session(base_url, session_token, r1, loc, r2)
        IN /\ call' = [op |-> "init_session", base |-> base_url,
                       tok |-> session_token, r1 |-> r1, loc |-> loc, r2 |-> r2]
           /\ ret' = r
           /\ base_url' = r.base
           /\ session_token' = r.tok
    /\ UNCHANGED CallerVars

CallKillSession ==
    /\ pc = "call" /\ call = NoCall
    /\ \E a \in HttpAnswers :
        LET r == kill_session(base_url, session_token, a)
        IN /\ call' = [op |-> "kill_session", base |-> base_url,
                       tok |-> session_token, r |-> a]
           /\ ret' = r
           /\ session_token' = r.tok
    /\ UNCHANGED <<base_url, CallerVars>>

CallQuery ==
    /\ pc = "call" /\ call = NoCall
    /\ \E op \in QueryOps, r1 \in HttpAnswers, loc \in Bases,
          r2 \in HttpAnswers, q \in HttpAnswers :
        LET r == CASE op = "list_search_options" ->
                        list_search_options(base_url, session_token, r1, loc, r2, q)
                   [] op = "search_new_tickets" ->
                        search_new_tickets(base_url, session_token, r1, loc, r2, q)
                   [] op = "search_recent_tickets" ->
                        search_recent_tickets(base_url, session_token, r1, loc, r2, q)
        IN /\ call' = [op |-> op, base |-> base_url, tok |-> session_token,
                       r1 |-> r1, loc |-> loc, r2 |-> r2, q |-> q]
           /\ ret' = r
           /\ base_url' = r.base
           /\ session_token' = r.tok
    /\ UNCHANGED CallerVars

\* One delivery: show_toast on the next ticket of the batch, inside tick.
CallDeliver ==
    /\ call = NoCall
    /\ \E o \in ToastOutcomes, tpl \in UrlTemplates, openOk \in BOOLEAN :
        /\ DeliverStep(show_toast(fresh[idx + 1], tpl, o, openOk))
        /\ call' = [op |-> "show_toast", id |-> fresh[idx + 1], code |-> o,
                    tpl |-> tpl, openOk |-> openOk, st |-> st]
        /\ ret' = show_toast(fresh[idx + 1], tpl, o, openOk)

\* load_state as main_loop_with_flags calls it.
CallLoad ==
    /\ call = NoCall
    /\ \E readable \in BOOLEAN :
        /\ LoadStep(readable)
        /\ call' = [op |-> "load_state", disk |-> disk, dataDir |-> dataDir,
                    readable |-> readable]
        /\ ret' = load_state(disk, dataDir, readable)

\* save_state on a set built by a sequence of inserts, then load_state.
CallRoundTrip ==
    /\ pc = "load" /\ call = NoCall
    /\ \E ins \in RowLists, w \in {"ok", "failed", "torn"}, readable \in BOOLEAN :
        LET saved == save_state(disk, InsertAll(ins), dataDir, w)
            loaded == load_state(saved.disk, dataDir, readable)
        IN /\ call' = [op |-> "round_trip", ins |-> ins, dataDir |-> dataDir,
                       w |-> w, readable |-> readable]
           /\ ret' = [ok |-> saved.ok /\ loaded.ok, ids |-> loaded.ids]
           /\ disk' = saved.disk
           /\ st' = loaded.ids
    /\ UNCHANGED <<pc, stop, exitCause, clientVars, flagVars, cycleVars, histVars,
                   envVars, tickRes, count, sleepLeft>>

\* parse_ticket_rows on the data of a response.
CallParse ==
    /\ pc = "call" /\ call = NoCall
    /\ session_token = "held"
    /\ \E data \in JsonData :
        /\ call' = [op |-> "parse_ticket_rows", data |-> data]
        /\ ret' = parse_ticket_rows(data)
    /\ UNCHANGED <<clientVars, CallerVars>>

\* resolve_field_ids and the lookups of the four uids, at start-up.
CallResolve ==
    /\ call = NoCall
    /\ \E q \in {"ok", "fail"}, opts \in SUBSET OptEntries :
        LET e == ensure_session(base_url, session_token, "ok", base_url, "ok")
            found == resolve_field_ids(opts, FieldNames)
        IN /\ ResolveStep(e, q, found)
           /\ call' = [op |-> "resolve_field_ids", q |-> q, opts |-> opts, disk |-> disk]
           /\ ret' = [ok |-> q = "ok", found |-> found]

CallNext ==
    \/ CallResolve
    \/ CallParse
    \/ CallLoad
    \/ CallRoundTrip
    \/ CallInitSession
    \/ CallKillSession
    \/ CallQuery
    \/ CallDeliver

CallSpec == CallInit /\ [][CallNext]_vars

\* ------------------------------------------------------------ properties

CycleEnded == pc \in {"tickOk", "tickErr"}
Delivered == Range(cycDelivered)
Occurrences(s, x) == Cardinality({i \in 1..Len(s) : s[i] = x})
StrictlyDescending(s) == \A i \in 1..Len(s) : \A j \in 1..Len(s) : i < j => s[i] > s[j]
OnDisk(ids) == disk.kind = "ok" /\ Deserialize(disk.ids) = ids

\* C1: across crashes and restarts no ticket identifier is delivered more
\* than once: an identifier delivered in an earlier run of the installation
\* is never delivered again by a later run.
C1_AtMostOnceAcrossRestarts == dataDir => runNotified \cap prevNotified = {}

\* C2: a steady-state cycle whose deliveries all succeed delivers every
\* fetched identifier that was unseen at cycle start exactly once, in strictly
\* descending order, and ends with seen = seen at start + delivered.
C2_SteadyCycleDelivery ==
    (CycleEnded /\ path = "steady" /\ tickRes \in {"ok", "persist"}) =>
        /\ Delivered = Range(tickets) \ stStart
        /\ \A id \in Delivered : Occurrences(cycDelivered, id) = 1
        /\ StrictlyDescending(cycDelivered)
        /\ st = stStart \cup Delivered

\* C3: within one run, an identifier that was in the seen set at the start
\* of the current cycle or of any earlier cycle is not delivered, whatever the
\* query results and however the cycles end.
C3_SeenNeverDelivered == Delivered \cap runSeenStart = {}

C3_Witness ==
    /\ cycles = "later"
    /\ cycDelivered # <<>>
    /\ Range(tickets) \cap runSeenStart # {}

\* C4 (as stated): in the first cycle of a run with first_run_notify=false,
\* whatever seen set was loaded, nothing is delivered, the cycle returns 0 and
\* the seen set in memory and on disk is exactly the fetched identifiers.
C4_FirstCycleAnyLoadedSet ==
    (dataDir /\ ~cfgNotify /\ cycles = "first" /\ pc = "tickOk") =>
        /\ cycDelivered = <<>>
        /\ count = 0
        /\ st = Range(tickets)
        /\ OnDisk(Range(tickets))

\* C4 (amended): in the first cycle of a run, taken with first_run true (the
\* loaded seen set was empty) and first_run_notify false, nothing is
\* delivered and the seen set in memory becomes exactly the fetched
\* identifiers; the cycle fails only on a persist error, and when it succeeds
\* it returns 0 and the state file, where a state path exists, holds exactly
\* the fetched identifiers.
C4_BaselineFirstCycle ==
    (cycles = "first" /\ path = "baseline") =>
        /\ pc \in {"save", "tickOk", "tickErr"}
        /\ cycDelivered = <<>>
        /\ runNotified = {}
        /\ st = Range(tickets)
        /\ pc = "tickErr" => tickRes = "persist"
        /\ pc = "tickOk" => /\ count = 0
                            /\ dataDir => OnDisk(Range(tickets))

C4_Witness ==
    /\ cycles = "first"
    /\ path = "baseline"
    /\ pc = "tickOk"
    /\ dataDir
    /\ Len(tickets) > 1

\* C5: the first-run cycle taken with first_run_notify=true delivers from
\* exactly the batch the steady-state filter gives (fetched, unseen at cycle
\* start, newest first); from that cycle on both flags are false, and no later
\* cycle of the run takes the baseline path.
C5_FirstNotifyThenSteady ==
    /\ path = "firstnotify" =>
          /\ fresh = SortNewestFirst(Unseen(tickets, stStart))
          /\ cycDelivered = SubSeq(fresh, 1, idx)
          /\ tickRes \in {"ok", "persist"} => idx = Len(fresh)
          /\ ~first_run /\ ~first_run_notify
    /\ (cfgNotify /\ ~first_run_notify) =>
          /\ ~first_run
          /\ path \in {"none", "firstnotify", "steady"}
    /\ cfgNotify => path # "baseline"

C5_Witness ==
    /\ cfgNotify
    /\ ~first_run_notify
    /\ cycles = "later"
    /\ path = "steady"
    /\ cycDelivered # <<>>

\* C6: after a cycle that ended in an error the client holds no session when
\* the next cycle begins, whatever the teardown request did.
C6_NoSessionAfterError ==
    (pc \in {"sleep", "sleeping", "loop"} /\ tickRes \in {"auth", "query", "delivery", "persist"}) =>
        session_token = "none"

\* C7: at the end of every cycle in which at least one notification was
\* delivered, whether the cycle succeeded or was aborted by a later delivery
\* failure, the durable seen set equals the seen set in memory (stated for
\* responses without repeated identifiers and an installation with a state
\* path).
C7_FlushedAfterDelivery ==
    (/\ dataDir
     /\ CycleEnded
     /\ tickRes \in {"ok", "delivery"}
     /\ cycDelivered # <<>>
     /\ Cardinality(Range(tickets)) = Len(tickets)) =>
        OnDisk(st)

\* C8: when a delivery fails the cycle ends in an error with the rest of the
\* batch unattempted; the tickets delivered before it are in the seen set, the
\* failed ticket and the ones after it are not.
C8_FailedDeliveryLeavesRestUnseen ==
    (pc = "tickErr" /\ tickRes = "delivery") =>
        /\ cycDelivered = SubSeq(fresh, 1, idx)
        /\ \A i \in 1..idx : fresh[i] \in st
        /\ \A i \in (idx + 1)..Len(fresh) : fresh[i] \notin st

\* C9: an authentication failure never ends the run: the process does not
\* return because of it, it goes on to a further cycle.
C9_AuthFailureNeverEndsRun == ~(pc = "exited" /\ exitCause = "auth")

\* C10: a cycle whose authentication or query fails changes neither the seen
\* set in memory, nor the state file, nor the two first-run flags, and it
\* delivers nothing.
C10_FailedQueryFrame ==
    [][((pc = "loop" /\ pc' = "tickErr")
          \/ (pc = "tickErr" /\ tickRes \in {"auth", "query"} /\ pc' = "sleep")) =>
        /\ st' = st
        /\ disk' = disk
        /\ first_run' = first_run
        /\ first_run_notify' = first_run_notify
        /\ runNotified' = runNotified
        /\ cycDelivered' = <<>>]_vars

C10_Witness ==
    /\ pc = "tickErr"
    /\ tickRes \in {"auth", "query"}
    /\ first_run
    /\ cfgNotify
    /\ disk.kind = "ok"

\* Positions in a request log at which a query request sits.
QueryPositions(reqs) == {i \in 1..Len(reqs) : reqs[i].req \in QueryReqs}

\* C11: no schema-introspection or ticket-search request leaves the client
\* without a session: every query request carries the session token; when
\* the client held none, a successful authentication precedes the query in
\* the same call, and when that authentication fails no query is sent.
C11_NoQueryWithoutSession ==
    call.op \in QueryOps =>
        /\ \A i \in QueryPositions(ret.reqs) : ret.reqs[i].sess = "held"
        /\ Cardinality(QueryPositions(ret.reqs)) <= 1
        /\ call.tok = "none" /\ QueryPositions(ret.reqs) # {} =>
               /\ ret.reqs[1].req = "initSession"
               /\ \A i \in QueryPositions(ret.reqs) : i = Len(ret.reqs) /\ i > 1
               /\ ret.tok = "held"
        /\ call.tok = "none" /\ ret.tok = "none" => QueryPositions(ret.reqs) = {}
        /\ call.tok = "held" => QueryPositions(ret.reqs) = {Len(ret.reqs)}

\* A query called without a session, whose authentication succeeded after a
\* redirect and whose query was then sent.
C11_Witness ==
    /\ call.op = "search_new_tickets"
    /\ call.tok = "none"
    /\ Len(ret.reqs) = 3
    /\ ret.reqs[3].req = "search/Ticket" /\ ret.reqs[3].sess = "held"

\* C12: ending the session never reports an error: whatever the answer to
\* the teardown request, the request that cannot be sent included,
\* kill_session completes without an error result.
C12_KillSessionNeverFails == call.op = "kill_session" => ret.ok

\* C13: a delivery call succeeds exactly when the notifier exits with a code
\* in 0..5; every other exit code, a missing exit code and a failure to
\* launch make it fail, and the failed call ends the cycle with an error
\* (the ticket is not recorded as seen).
C13_DeliveryOutcome ==
    call.op = "show_toast" =>
        /\ ret.ok <=> call.code \in 0..5
        /\ ret.ok => /\ pc \in {"deliver", "save"}
                     /\ tickRes = "running"
                     /\ cycDelivered = <<call.id>>
        /\ ~ret.ok => /\ pc = "tickErr"
                      /\ tickRes = "delivery"
                      /\ st = call.st
                      /\ cycDelivered = <<>>

\* The notifier ended without an exit code and the cycle ended with the
\* delivery error.
C13_Witness ==
    /\ call.op = "show_toast"
    /\ call.code = 0 - 1
    /\ ~ret.ok
    /\ pc = "tickErr"

\* C14: in a delivery call with a URL template configured, exit code 4 makes
\* exactly one attempt to open a URL, which is the template with every
\* "{id}" replaced by the identifier of the ticket; every other outcome makes
\* no attempt; an attempt that fails does not fail the call, and the ticket
\* is recorded as seen.  Without a template there is no URL to open.
C14_OpenOnButtonPressed ==
    call.op = "show_toast" =>
        /\ call.code = 4 /\ call.tpl.some =>
               /\ Len(ret.opens) = 1
               /\ Len(ret.opens[1]) = Len(call.tpl.text)
               /\ \A i \in 1..Len(call.tpl.text) :
                      ret.opens[1][i] = IF call.tpl.text[i] = "{id}"
                                        THEN ToString(call.id)
                                        ELSE call.tpl.text[i]
               /\ ret.ok
               /\ call.id \in st
        /\ call.code # 4 \/ ~call.tpl.some => ret.opens = <<>>
        /\ ret.warned => ret.ok /\ call.id \in st

\* Exit code 4 on a template with two placeholders, and the URL could not
\* be opened.
C14_Witness ==
    /\ call.op = "show_toast"
    /\ call.code = 4
    /\ call.tpl.some /\ Len(call.tpl.text) = 4
    /\ ~call.openOk /\ ret.warned
    /\ Len(ret.opens) = 1
    /\ call.id \in st /\ call.id \notin call.st

C16_SeenSetOnlyGrows ==
    /\ [][(pc # "exited" /\ pc' \notin {"exited", "boot"}) => st \subseteq st']_vars
    /\ [][(disk.kind = "ok" /\ disk'.kind = "ok") =>
              Deserialize(disk.ids) \subseteq Deserialize(disk'.ids)]_vars

\* C17: loading the seen set never fails the run: when state.json is absent
\* (or has no place to be), cannot be read or cannot be parsed, the run goes
\* on with an empty seen set and first_run true; otherwise it goes on with
\* exactly the identifiers in the file.
C17_LoadNeverFailsRun ==
    call.op = "load_state" =>
        /\ pc = "loop"
        /\ IF call.dataDir /\ call.disk.kind = "ok" /\ call.readable
           THEN /\ st = Range(call.disk.ids)
                /\ first_run = (Range(call.disk.ids) = {})
           ELSE /\ st = {}
                /\ first_run

\* A well-formed state file holding identifiers could not be read.
C17_Witness ==
    /\ call.op = "load_state"
    /\ call.dataDir /\ call.disk.kind = "ok" /\ call.disk.ids # <<>>
    /\ ~call.readable
    /\ ~ret.ok
    /\ pc = "loop" /\ st = {} /\ first_run

\* C19: round trip: for every set of identifiers and every order of
\* insertion, save_state followed by load_state gives a seen set with exactly
\* the same identifiers (the state file has a place to be, the write and
\* the read both succeed).
C19_RoundTrip ==
    (call.op = "round_trip" /\ call.dataDir /\ call.w = "ok" /\ call.readable) =>
        /\ ret.ok
        /\ ret.ids = Range(call.ins)
        /\ st = Range(call.ins)

\* Two identifiers inserted newest first, saved and loaded.
C19_Witness ==
    /\ call.op = "round_trip" /\ call.dataDir /\ call.w = "ok" /\ call.readable
    /\ Len(call.ins) = 2 /\ call.ins[1] > call.ins[2]
    /\ ret.ids = {call.ins[1], call.ins[2]}
    /\ disk.kind = "ok" /\ disk.ids = <<call.ins[2], call.ins[1]>>

\* The rows of a response whose id member is a string or a number that
\* yields an identifier.
ParseableRows(rows) == {i \in 1..Len(rows) : row_to_ticket(rows[i]).some}

\* C18: parsing a response whose rows come in an array or in an object
\* returns exactly one ticket for each row with a parseable identifier, in
\* the order of the rows, and none for any other row; the parse never fails
\* and a malformed row removes no sibling.
C18_OneTicketPerParseableRow ==
    call.op = "parse_ticket_rows" =>
        LET rows == call.data.rows
            good == ParseableRows(rows)
        IN /\ ret.ok
           /\ Len(ret.tickets) = Cardinality(good)
           /\ \A i \in good :
                  ret.tickets[Cardinality({j \in good : j <= i})] = row_to_ticket(rows[i]).v
           /\ \A i \in 1..Len(rows) :
                  i \in good => /\ rows[i].kind = "object" /\ rows[i].hasId
                                /\ rows[i].id.t \in {"str", "num"}

\* An object of two rows: a row whose id is the float-like string "1.0",
\* then a row whose id is the string " 12 "; only the second gives a ticket.
C18_Witness ==
    /\ call.op = "parse_ticket_rows"
    /\ call.data.kind = "object"
    /\ Len(call.data.rows) = 2
    /\ call.data.rows[1] = ObjectRow(JStr(<<"1", ".", "0">>))
    /\ call.data.rows[2] = ObjectRow(JStr(<<" ", "1", "2", " ">>))
    /\ ret.tickets = <<12>>

\* The answer that decides an authentication call: the answer to the retry
\* when the first answer was a redirect with a Location, the first otherwise.
DecidingAnswer == IF call.r1 = "redirect" THEN call.r2 ELSE call.r1

\* C20: one authentication call sends one initSession request to the base
\* it was called with and, only when the first answer is a redirect, one
\* retry to the redirect target, never a third; the call succeeds and sets
\* a session only on a success answer; a redirect answer to the retry or any
\* non-success answer makes it fail with no session set.
C20_AtMostOneRedirect ==
    call.op = "init_session" =>
        /\ Len(ret.reqs) \in 1..2
        /\ \A i \in 1..Len(ret.reqs) : ret.reqs[i].req = "initSession"
        /\ ret.reqs[1].base = call.base
        /\ Len(ret.reqs) = 2 <=> call.r1 = "redirect"
        /\ Len(ret.reqs) = 2 => ret.reqs[2].base = call.loc
        /\ ret.ok <=> DecidingAnswer = "ok"
        /\ session_token = "held" <=> ret.ok
        /\ DecidingAnswer \in {"redirect", "redirnoloc", "fail"} =>
               ~ret.ok /\ session_token = "none"

\* The first answer was a redirect and the retry was answered by a redirect
\* again: two requests, no session.
C20_Witness ==
    /\ call.op = "init_session"
    /\ call.r1 = "redirect" /\ call.r2 = "redirect"
    /\ Len(ret.reqs) = 2
    /\ ~ret.ok /\ session_token = "none"

\* The uids that an answer of listSearchOptions resolves: those listed under
\* a key that is a number.
Resolved(opts, uid) == \E o \in opts : o.numeric /\ o.uid = uid

\* C21: when the schema does not resolve the identifier, the title or the
\* status field the run ends before its loop: no cycle runs, nothing is
\* delivered, the seen set and the state file are as they were; when only
\* the requester field is missing the run goes on to load the seen set.
C21_MandatoryFieldsOrExit ==
    (call.op = "resolve_field_ids" /\ ret.ok) =>
        IF /\ Resolved(call.opts, "Ticket.id")
           /\ Resolved(call.opts, "Ticket.name")
           /\ Resolved(call.opts, "Ticket.status")
        THEN pc = "load" /\ exitCause = "none"
        ELSE /\ pc = "exited" /\ exitCause = "schema"
             /\ cycles = "none"
             /\ runNotified = {}
             /\ st = {}
             /\ disk = call.disk

\* Only the requester field is unresolved: the run goes on.
C21_Witness ==
    /\ call.op = "resolve_field_ids" /\ ret.ok
    /\ ret.found = {"Ticket.id", "Ticket.name", "Ticket.status"}
    /\ pc = "load"

\* C22: within one cycle no identifier is delivered more than once, whatever
\* the response, the same identifier in several rows included; and the
\* count a cycle returns is the number of distinct tickets it notified.
C22_NoRepeatWithinCycle ==
    /\ \A id \in Ids : Occurrences(cycDelivered, id) <= 1
    /\ (pc = "tickOk" /\ path # "baseline") => count = Cardinality(Delivered)

\* In a notifying cycle the seen set is the set at the start of the cycle
\* plus the identifiers delivered so far.
SeenIsStartPlusDelivered ==
    (pc \in {"deliver", "save", "tickOk", "tickErr"} /\ path # "baseline") =>
        /\ st = stStart \cup Delivered
        /\ \A i \in 1..Len(fresh) : fresh[i] \notin Delivered => fresh[i] \notin st

\* C23: an identifier enters the seen set in two ways only: it was fetched
\* by a baseline cycle (first_run true, first_run_notify false), or its
\* delivery succeeded in the cycle in progress.  (A run starts from the set
\* in state.json, and state.json is only ever written from the set in
\* memory.)  So every step leaves the seen set of a notifying cycle equal to
\* the set at the start of the cycle plus the identifiers delivered: a
\* ticket whose delivery failed or was not attempted is not in it.
C23_SeenOnlyByBaselineOrDelivery ==
    /\ [][\A id \in Ids : (id \in st' /\ id \notin st) =>
             \/ pc = "load" /\ disk.kind = "ok" /\ id \in Range(disk.ids)
             \/ /\ pc = "loop" /\ first_run /\ ~first_run_notify
                /\ path' = "baseline" /\ id \in Range(tickets')
             \/ /\ pc = "deliver" /\ id = fresh[idx + 1]
                /\ cycDelivered' = Append(cycDelivered, id)]_vars
    /\ [][(disk' # disk /\ disk'.kind = "ok") => Range(disk'.ids) = st]_vars
    /\ [][SeenIsStartPlusDelivered']_vars

\* A batch of two tickets: the first was delivered and is seen, the delivery
\* of the second failed and it is not.
C23_Witness ==
    /\ pc = "tickErr" /\ tickRes = "delivery"
    /\ Len(fresh) = 2 /\ fresh[1] # fresh[2]
    /\ cycDelivered = <<fresh[1]>>
    /\ fresh[1] \in st /\ fresh[2] \notin st

\* C24: a failed authentication leaves the client as it was: the base
\* endpoint after the failed call is the one held before it, whether the
\* call was made directly or by a query that found no session.
C24_FailedAuthKeepsBase ==
    /\ (call.op = "init_session" /\ ~ret.ok) =>
           base_url = call.base /\ session_token = call.tok
    /\ (call.op \in QueryOps /\ call.tok = "none" /\ ret.tok = "none") =>
           base_url = call.base

====
